---- MODULE Spec2Model ----
(***************************************************************************)
(* The storefront of app.py: the catalog (products, inventory), the view   *)
(* counters (viewings) and the six routes, as a state machine.             *)
(*                                                                         *)
(* Spec      every request is handled to completion before the next one    *)
(*           (single-threaded execution).                                  *)
(* SpecConc  the product page handler runs on several worker threads and   *)
(*           the statement  viewings[sku] = viewings.get(sku, 0) + 1  is   *)
(*           the read and the store it compiles to.                        *)
(***************************************************************************)
EXTENDS Integers, Sequences, FiniteSets, TLC

(* ------------------------------ bounds --------------------------------- *)

\* Number of generated products; range(100) in app.py.
NumProducts == 3

\* Largest stock count drawn at start-up; randint(0, 10) in app.py.
MaxStock == 1

\* Product page requests are accepted while the view counts sum to less.
MaxViews == 3

\* Worker threads of SpecConc.
NumThreads == 2

(* ------------------------------ inputs --------------------------------- *)

\* The keys of the catalog, in the insertion order of the dicts.
Skus == 1..NumProducts

\* An identifier that is the key of no product.
UnknownSku == 0

\* The <string:sku> a request can carry.
Ids == Skus \cup {UnknownSku}

\* The values of the limit query parameter.
Limits == (0 - 2)..(NumProducts + 1)

\* The query string of /api/popular-products: no limit, or one limit.
QueryArgs == {<< >>} \cup {<<l>> : l \in Limits}

Threads == 1..NumThreads

VARIABLES
    inventory,  \* app.py inventory: sku -> stock count
    products,   \* app.py products: sku -> product
    viewings,   \* app.py viewings: sku -> view count, a key only once viewed
    resp,       \* the response to the latest request handled to completion
    pc,         \* SpecConc: where each worker thread is in view_product_details
    tsku,       \* SpecConc: the sku of the thread's request
    tmp,        \* SpecConc: the value the thread read with viewings.get(sku, 0)
    tresp       \* SpecConc: how the thread's latest request ended

vars == <<inventory, products, viewings, resp, pc, tsku, tmp, tresp>>

tvars == <<pc, tsku, tmp, tresp>>

(* --------------------------- dict helpers ------------------------------ *)

\* d.get(k, default)
Get(d, k, default) == IF k \in DOMAIN d THEN d[k] ELSE default

\* d[k] = v
SetItem(d, k, v) == [x \in (DOMAIN d) \cup {k} |-> IF x = k THEN v ELSE d[x]]

\* The view count of an id, 0 when the id is no key of viewings.
Views(v, sku) == Get(v, sku, 0)

RECURSIVE SumOver(_, _)
SumOver(d, S) ==
    IF S = {} THEN 0
    ELSE LET k == CHOOSE x \in S : TRUE IN d[k] + SumOver(d, S \ {k})

\* The sum of all view counts.
TotalViews(v) == SumOver(v, DOMAIN v)

(* ---------------------------- responses -------------------------------- *)

\* products[sku] and inventory[sku] raise KeyError for a key that is absent;
\* the request then fails instead of returning a result.
NotFound == "KeyError"

Ok(data) == [status |-> "ok", data |-> data]

Fail(kind) == [status |-> kind, data |-> << >>]

Response(route, arg, r) ==
    [route |-> route, arg |-> arg, status |-> r.status, data |-> r.data]

NoResponse == [route |-> "none", arg |-> 0, status |-> "none", data |-> << >>]

(* -------------------------- query functions ---------------------------- *)

\* url_for('view_product_details', sku=sku)
url_for(sku) == <<"/products/", sku>>

get_product_details_default(prods, inv, v, sku) ==
    Ok([product |-> Get(prods, sku, [sku |-> sku]),
        inventory |-> Get(inv, sku, 0),
        url |-> url_for(sku),
        views |-> Views(v, sku)])

get_product_details(prods, inv, v, sku) ==
    IF sku \notin DOMAIN prods \/ sku \notin DOMAIN inv
    THEN Fail(NotFound)
    ELSE Ok([product |-> prods[sku],
             inventory |-> inv[sku],
             url |-> url_for(sku),
             views |-> Views(v, sku)])

\* The keys of products.items() in iteration order.
RECURSIVE KeysInOrder(_, _)
KeysInOrder(prods, n) ==
    IF n = 0 THEN << >>
    ELSE LET rest == KeysInOrder(prods, n - 1)
         IN IF n \in DOMAIN prods THEN Append(rest, n) ELSE rest

\* if inventory[sku] > 0
InStock(inv, sku) == inv[sku] > 0

\* [get_product_details(sku) for sku, product in products.items() if ...]
RECURSIVE Comprehension(_, _, _, _)
Comprehension(keys, prods, inv, v) ==
    IF keys = << >> THEN << >>
    ELSE LET sku == Head(keys)
             rest == Comprehension(Tail(keys), prods, inv, v)
         IN IF InStock(inv, sku)
            THEN <<get_product_details(prods, inv, v, sku).data>> \o rest
            ELSE rest

\* Where a stable descending sort puts x among the already sorted s: after
\* every entry whose views are greater than or equal to those of x.
RECURSIVE InsertDesc(_, _)
InsertDesc(s, x) ==
    IF s = << >> THEN <<x>>
    ELSE IF Head(s).views >= x.views
         THEN <<Head(s)>> \o InsertDesc(Tail(s), x)
         ELSE <<x>> \o s

RECURSIVE SortRec(_, _)
SortRec(done, todo) ==
    IF todo = << >> THEN done
    ELSE SortRec(InsertDesc(done, Head(todo)), Tail(todo))

SortedUnsorted(s) == s

\* sorted(s, key=lambda product_details: product_details['views'], reverse=True)
Sorted(s) == SortRec(<< >>, s)

SliceOffByOne(s, limit) ==
    SubSeq(s, 1, IF limit + 1 < Len(s) THEN limit + 1 ELSE Len(s))

\* s[0:limit]: a negative limit counts from the end of the list.
Slice(s, limit) ==
    LET n == Len(s)
        stop == IF limit < 0
                THEN (IF n + limit < 0 THEN 0 ELSE n + limit)
                ELSE (IF limit < n THEN limit ELSE n)
    IN SubSeq(s, 1, stop)

get_popular_products(prods, inv, v, limit) ==
    Slice(Sorted(Comprehension(KeysInOrder(prods, NumProducts), prods, inv, v)),
          limit)

(* --------------------------- initial state ----------------------------- *)

\* The limit of the home page.
HomeLimit == 10

\* The limit of /api/popular-products when the query string has none.
DefaultLimit == 10

\* title, description and price are generated once and read by no handler
\* except to be copied into a response; a product is modelled by its sku.
Product(key) == [sku |-> key]

Init ==
    /\ inventory \in [Skus -> 0..MaxStock]
    /\ products = [key \in DOMAIN inventory |-> Product(key)]
    /\ viewings = << >>
    /\ resp = NoResponse
    /\ pc = [t \in Threads |-> "idle"]
    /\ tsku = [t \in Threads |-> UnknownSku]
    /\ tmp = [t \in Threads |-> 0]
    /\ tresp = [t \in Threads |-> "none"]

(* ------------------ the routes, handled to completion ------------------ *)

view_home_counting ==
    /\ resp' = Response("view_home", HomeLimit,
                   Ok(get_popular_products(products, inventory, viewings, HomeLimit)))
    /\ TotalViews(viewings) < MaxViews
    /\ viewings' = [k \in (DOMAIN viewings) \cup {x \in Skus : inventory[x] > 0} |->
                       IF k \in Skus /\ inventory[k] > 0
                       THEN Views(viewings, k) + 1 ELSE viewings[k]]
    /\ UNCHANGED <<inventory, products, tvars>>

\* GET /
view_home ==
    /\ resp' = Response("view_home", HomeLimit,
                   Ok(get_popular_products(products, inventory, viewings, HomeLimit)))
    /\ UNCHANGED <<inventory, products, viewings, tvars>>

\* GET /api/popular-products?limit=N
api_popular_products(q) ==
    LET limit == IF q = << >> THEN DefaultLimit ELSE q[1]
    IN /\ resp' = Response("api_popular_products", limit,
                      Ok(get_popular_products(products, inventory, viewings, limit)))
       /\ UNCHANGED <<inventory, products, viewings, tvars>>

IncrementDown(old) == old - 1

\* viewings.get(sku, 0) + 1
Increment(old) == old + 1

\* GET /products/<sku>
view_product_details(sku) ==
    /\ TotalViews(viewings) < MaxViews
    /\ viewings' = SetItem(viewings, sku, Increment(Views(viewings, sku)))
    /\ resp' = Response("view_product_details", sku,
                   get_product_details(products, inventory, viewings', sku))
    /\ UNCHANGED <<inventory, products, tvars>>

\* GET /api/products/<sku>
api_product_details(sku) ==
    /\ resp' = Response("api_product_details", sku,
                   get_product_details(products, inventory, viewings, sku))
    /\ UNCHANGED <<inventory, products, viewings, tvars>>

\* GET /api/inventory
api_inventory ==
    /\ resp' = Response("api_inventory", 0, Ok(inventory))
    /\ UNCHANGED <<inventory, products, viewings, tvars>>

api_inventory_sku_reserving(sku) ==
    /\ resp' = Response("api_inventory_sku", sku,
                   IF sku \in DOMAIN inventory THEN Ok(inventory[sku])
                   ELSE Fail(NotFound))
    /\ inventory' = IF sku \in DOMAIN inventory /\ inventory[sku] > 0
                    THEN [inventory EXCEPT ![sku] = @ - 1]
                    ELSE inventory
    /\ UNCHANGED <<products, viewings, tvars>>

\* GET /api/inventory/<sku>
api_inventory_sku(sku) ==
    /\ resp' = Response("api_inventory_sku", sku,
                   IF sku \in DOMAIN inventory THEN Ok(inventory[sku])
                   ELSE Fail(NotFound))
    /\ UNCHANGED <<inventory, products, viewings, tvars>>

Next ==
    \/ view_home
    \/ \E q \in QueryArgs : api_popular_products(q)
    \/ \E sku \in Ids : view_product_details(sku)
    \/ \E sku \in Ids : api_product_details(sku)
    \/ api_inventory
    \/ \E sku \in Ids : api_inventory_sku(sku)

Spec == Init /\ [][Next]_vars

(* ------------- the product page on concurrent worker threads ----------- *)

\* The number of requests taken whose store is still to come.
InFlight == Cardinality({u \in Threads : pc[u] \in {"read", "store"}})

\* A worker thread that is free takes a request for /products/<sku>; requests
\* are accepted while the view counts and the stores to come sum to less than
\* MaxViews.
Dispatch(t, sku) ==
    /\ pc[t] \in {"idle", "done"}
    /\ TotalViews(viewings) + InFlight < MaxViews
    /\ pc' = [pc EXCEPT ![t] = "read"]
    /\ tsku' = [tsku EXCEPT ![t] = sku]
    /\ tmp' = [tmp EXCEPT ![t] = 0]
    /\ tresp' = [tresp EXCEPT ![t] = "none"]
    /\ UNCHANGED <<inventory, products, viewings, resp>>

\* viewings.get(sku, 0): the right-hand side reads the counter.
ReadViews(t) ==
    /\ pc[t] = "read"
    /\ tmp' = [tmp EXCEPT ![t] = Views(viewings, tsku[t])]
    /\ pc' = [pc EXCEPT ![t] = "store"]
    /\ UNCHANGED <<inventory, products, viewings, resp, tsku, tresp>>

StoreViewsAtomic(t) ==
    /\ pc[t] = "store"
    /\ viewings' = SetItem(viewings, tsku[t], Increment(Views(viewings, tsku[t])))
    /\ pc' = [pc EXCEPT ![t] = "render"]
    /\ UNCHANGED <<inventory, products, resp, tsku, tmp, tresp>>

\* viewings[sku] = <the value read> + 1: the subscript store.
StoreViews(t) ==
    /\ pc[t] = "store"
    /\ viewings' = SetItem(viewings, tsku[t], Increment(tmp[t]))
    /\ pc' = [pc EXCEPT ![t] = "render"]
    /\ UNCHANGED <<inventory, products, resp, tsku, tmp, tresp>>

\* return render_template(..., product_details=get_product_details(sku))
RenderDetails(t) ==
    /\ pc[t] = "render"
    /\ tresp' = [tresp EXCEPT ![t] =
                     get_product_details(products, inventory, viewings, tsku[t]).status]
    /\ pc' = [pc EXCEPT ![t] = "done"]
    /\ UNCHANGED <<inventory, products, viewings, resp, tsku, tmp>>

NextConc ==
    \/ \E t \in Threads : \E sku \in Ids : Dispatch(t, sku)
    \/ \E t \in Threads : ReadViews(t)
    \/ \E t \in Threads : StoreViews(t)
    \/ \E t \in Threads : RenderDetails(t)

\* The product page reads the stock counts only to copy one into the page, and
\* the threads keep the outcome of a request, not the page: the concurrent runs
\* start from the catalog in which every product has the largest stock count.
InitConc ==
    /\ Init
    /\ inventory = [key \in Skus |-> MaxStock]

SpecConc == InitConc /\ [][NextConc]_vars

(* ------------------------------ claims --------------------------------- *)

PopularRoutes == {"view_home", "api_popular_products"}

DetailRoutes == {"view_product_details", "api_product_details"}

\* The in-stock products of the catalog.
InStockSkus == {sku \in DOMAIN products : inventory[sku] > 0}

\* The skus of the entries of a list of product details.
SkusOf(r) == {r[i].product.sku : i \in 1..Len(r)}

Min(a, b) == IF a < b THEN a ELSE b

\* C1: in single-threaded execution every successful product-detail request
\* for an id, through the HTML route or through the JSON route, raises the
\* view count of that id by exactly 1.
C1_DetailRequestCountsView ==
    [][\A sku \in Ids :
          ( /\ view_product_details(sku) \/ api_product_details(sku)
            /\ resp'.status = "ok" )
          => Views(viewings', sku) = Views(viewings, sku) + 1]_vars

\* C2: for every limit <= 0 the popular products are the empty sequence, and
\* the request does not fail.
C2_NonPositiveLimitEmpty ==
    (resp.route \in PopularRoutes /\ resp.arg <= 0)
    => (resp.status = "ok" /\ resp.data = << >>)

\* C3: for every limit >= 0 the popular products are in-stock products with
\* their current view counts, in non-increasing order of view count, and every
\* in-stock product that was left out has a view count less than or equal to
\* that of every product returned.
C3_PopularSortedByViews ==
    (resp.route \in PopularRoutes /\ resp.arg >= 0)
    => LET r == resp.data
       IN /\ resp.status = "ok"
          /\ \A i \in 1..Len(r) :
               /\ r[i].product.sku \in InStockSkus
               /\ r[i].views = Views(viewings, r[i].product.sku)
          /\ \A i, j \in 1..Len(r) :
               /\ i < j => r[i].views >= r[j].views
               /\ i # j => r[i].product.sku # r[j].product.sku
          /\ \A out \in InStockSkus \ SkusOf(r) : \A i \in 1..Len(r) :
               Views(viewings, out) <= r[i].views

\* C3 witness: views 1, 0, 1 for the skus 1, 2, 3, all in stock, and limit 2:
\* the result is the skus 1 and 3.
C3_Witness ==
    /\ resp.route = "api_popular_products"
    /\ resp.arg = 2
    /\ InStockSkus = Skus
    /\ Views(viewings, 1) = 1 /\ Views(viewings, 2) = 0 /\ Views(viewings, 3) = 1
    /\ Len(resp.data) = 2
    /\ SkusOf(resp.data) = {1, 3}

\* C4: for every limit >= 0 the popular products are exactly
\* min(limit, number of in-stock products) entries, so at most limit, and no
\* entry is a product whose inventory count is 0.
C4_PopularAtMostLimitInStock ==
    (resp.route \in PopularRoutes /\ resp.arg >= 0)
    => LET r == resp.data
       IN /\ Len(r) <= resp.arg
          /\ Len(r) = Min(resp.arg, Cardinality(InStockSkus))
          /\ \A i \in 1..Len(r) :
               /\ r[i].inventory > 0
               /\ inventory[r[i].product.sku] > 0

\* C4 witness: a limit below the number of in-stock products cuts the list,
\* and a product without stock exists.
C4_Witness ==
    /\ resp.route = "api_popular_products"
    /\ resp.arg = 1
    /\ Cardinality(InStockSkus) = 2
    /\ \E sku \in Skus : inventory[sku] = 0
    /\ Len(resp.data) = 1

\* C5: a request for the popular products, through the home page or the JSON
\* route, leaves the view count of every product unchanged.
C5_PopularLeavesViews ==
    [][resp'.route \in PopularRoutes => viewings' = viewings]_vars

\* C5 witness: the home page listed a product that has been viewed.
C5_Witness ==
    /\ resp.route = "view_home"
    /\ Len(resp.data) > 0
    /\ resp.data[1].views > 0

\* C6: the store of a product page request whose read has gone stale (another
\* request stored to the same counter after the read) writes the value read
\* plus 1 and does not raise the counter: the increment is lost.
C6_StaleStoreLosesUpdate ==
    [][\A t \in Threads :
          ( /\ pc[t] = "store" /\ pc'[t] = "render"
            /\ Views(viewings, tsku[t]) > tmp[t] )
          => /\ Views(viewings', tsku[t]) = tmp[t] + 1
             /\ Views(viewings', tsku[t]) <= Views(viewings, tsku[t])]_vars

\* C6 witness: two requests for one product both read 0 and both completed, and
\* the view count is 1.
C6_Witness ==
    \E t1, t2 \in Threads :
        /\ t1 # t2
        /\ pc[t1] = "done" /\ pc[t2] = "done"
        /\ tresp[t1] = "ok" /\ tresp[t2] = "ok"
        /\ tsku[t1] = tsku[t2]
        /\ tmp[t1] = 0 /\ tmp[t2] = 0
        /\ Views(viewings, tsku[t1]) = 1
        /\ TotalViews(viewings) = 1

\* C7: a product-detail request (HTML or JSON) or a single-inventory-entry
\* request for an id that is no key of the catalog fails with the lookup error
\* and returns no result.
C7_UnknownIdFails ==
    ( /\ resp.route \in DetailRoutes \cup {"api_inventory_sku"}
      /\ resp.arg \notin DOMAIN products )
    => (resp.status = NotFound /\ resp.data = << >>)

\* C7 witness: the JSON detail route was asked for an unknown id.
C7_Witness ==
    /\ resp.route = "api_product_details"
    /\ resp.arg = UnknownSku
    /\ resp.status = NotFound

\* C8: the inventory keys are the product keys in every reachable state, and
\* no step changes the product mapping or the inventory mapping.
C8_CatalogFrozen ==
    /\ [](DOMAIN inventory = DOMAIN products)
    /\ [][inventory' = inventory /\ products' = products]_vars

\* C8 witness: after product page views, a single inventory entry was served.
C8_Witness ==
    /\ resp.route = "api_inventory_sku"
    /\ resp.status = "ok"
    /\ TotalViews(viewings) = MaxViews

C10_ViewKeysAreProducts ==
    /\ [](DOMAIN viewings \subseteq DOMAIN products)
    /\ [][(resp'.route \in DetailRoutes /\ resp'.status = NotFound)
          => viewings' = viewings]_vars

====
